---- MODULE Spec2Model ----
(***************************************************************************)
(* A model of package indent (indent.go): the pure transform indent, the   *)
(* one-shot String/Bytes, the indenter writer (New, Write) with its        *)
(* back-link p, and a destination io.Writer that may accept fewer bytes    *)
(* than it is offered.                                                     *)
(*                                                                         *)
(* Byte slices are sequences of one-character strings.  Writers are        *)
(* numbered: 0 is the plain destination, h >= 1 is the indenter ind[h]     *)
(* (the index stands for the pointer).  A nil *indenter is 0.              *)
(***************************************************************************)
EXTENDS Integers, Sequences, FiniteSets, TLC

\* ------------------------------------------------------------------ bounds
\* Spec: the number of indenters made, the bytes the destination takes in all.
MaxInd == 2
MaxOut == 3
\* The one-writer specifications: the longest input, the longest prefix, the
\* most a limited destination takes per call.
MaxInput == 4
MaxOnePrefix == 2
MaxLimit == 3
\* SpecRetry: the bytes a keeping destination takes before the loop is cut.
MaxRetryOut == 10
MaxDepth == 3
MaxHandles == 3
MaxWritten == 4
MaxChainWritten == 2
MaxShared == 3
MaxSharedWritten == 2

\* ------------------------------------------------------------------- bytes
NL == "\n"
\* The zero byte of a freshly made slice (make([]byte, n)).
Zero == "0"
InputBytes == {"a", "b", NL}
PrefixBytes == {"-", "+"}
Nil == "nil"
Errors == {Nil, "EOF"}

RECURSIVE SeqsUpTo(_, _)
SeqsUpTo(S, n) ==
  IF n = 0 THEN {<<>>}
  ELSE LET shorter == SeqsUpTo(S, n - 1)
       IN shorter \cup {Append(s, x) : s \in {t \in shorter : Len(t) = n - 1}, x \in S}

Min(a, b) == IF a < b THEN a ELSE b

\* The one element of a singleton set.  Sole({F(x) : x \in {e}}) is F(e) with
\* e evaluated once, however often F uses x.
Sole(S) == CHOOSE x \in S : TRUE

\* s[from:to] of Go, with 0-based from (inclusive) and to (exclusive).
Slice(s, from, to) == SubSeq(s, from + 1, to)

\* ------------------------------------------------------- package bytes
\* bytes.Count(s, []byte{'\n'})
Count(s) == Cardinality({i \in 1..Len(s) : s[i] = NL})

\* bytes.LastIndex(s, []byte{'\n'}): 0-based, -1 when there is none.
LastIndex(s) ==
  LET at == {i \in 1..Len(s) : s[i] = NL}
  IN IF at = {} THEN -1 ELSE (CHOOSE i \in at : \A j \in at : j <= i) - 1

\* bytes.SplitAfter(s, []byte{'\n'}): the pieces after each terminator; the
\* last piece is empty when s ends in the terminator (or is empty).
RECURSIVE SplitAfter(_)
SplitAfter(s) ==
  LET at == {i \in 1..Len(s) : s[i] = NL}
  IN IF at = {} THEN <<s>>
     ELSE LET i == CHOOSE k \in at : \A j \in at : k <= j
          IN <<SubSeq(s, 1, i)>>
               \o Sole({SplitAfter(rest) : rest \in {SubSeq(s, i + 1, Len(s))}})

\* copy(dst[n:], src) on a slice dst of a fixed length: what does not fit is
\* dropped.  Returns the slice after the copy.
CopyAt(dst, n, src) ==
  [i \in 1..Len(dst) |->
     IF i > n /\ i <= n + Len(src) THEN src[i - n] ELSE dst[i]]

\* ---------------------------------------------------------------- indent
\* The length indent allocates for its result.
IndentLen(buf, prefix, sol, nlines) ==
  Len(buf) + (nlines - 1) * Len(prefix) + (IF sol THEN Len(prefix) ELSE 0)

\* The lines indent prefixes: the pieces of buf without a trailing empty one.
BadIndentLines(buf) == SplitAfter(buf)
IndentLines(buf) ==
  LET lines == SplitAfter(buf)
      n == Len(lines)
  IN IF Len(lines[n]) = 0 THEN SubSeq(lines, 1, n - 1) ELSE lines

\* The loop of indent: each line of lines, from the k-th on, is copied into
\* dst at n behind a copy of prefix.
RECURSIVE IndentFill(_, _, _, _, _)
IndentFill(dst, n, lines, k, prefix) ==
  IF k > Len(lines) THEN dst
  ELSE LET n1 == Min(Len(dst), n + Len(prefix))
           n2 == Min(Len(dst), n1 + Len(lines[k]))
       IN Sole({IndentFill(d2, n2, lines, k + 1, prefix) :
                d2 \in {CopyAt(CopyAt(dst, n, prefix), n1, lines[k])}})

\* indent once buf is split into the lines to prefix.
IndentOf(buf, prefix, sol, lines) ==
  LET size == IndentLen(buf, prefix, sol, Len(lines))
      fresh == [i \in 1..size |-> Zero]
  IN IF sol THEN IndentFill(fresh, 0, lines, 1, prefix)
     ELSE IndentFill(CopyAt(fresh, 0, lines[1]),
                     Min(size, Len(lines[1])), lines, 2, prefix)

indent(buf, prefix, sol) ==
  IF Len(buf) = 0 \/ Len(prefix) = 0 THEN buf
  ELSE Sole({IndentOf(buf, prefix, sol, lines) : lines \in {IndentLines(buf)}})

\* String and Bytes: the same body on strings and on byte slices.
String(prefix, input) ==
  IF Len(input) = 0 \/ Len(prefix) = 0 THEN input
  ELSE indent(input, prefix, TRUE)

Bytes(prefix, input) ==
  IF Len(input) = 0 \/ Len(prefix) = 0 THEN input
  ELSE indent(input, prefix, TRUE)

\* -------------------------------------------------------------- indenter
\* The heap is H = [ind, mem]: ind[h] is the indenter at pointer h, with
\* fields w (the writer it writes to), prefix (a slice [arr, len] of the
\* backing array mem[arr], whose length is the slice's capacity), sol and p
\* (the indenter that wrapped it, 0 when nil).
PrefixOf(H, h) == SubSeq(H.mem[H.ind[h].prefix.arr], 1, H.ind[h].prefix.len)

\* A backing array of the given capacity holding data.
MakeArray(data, cap) == [i \in 1..cap |-> IF i <= Len(data) THEN data[i] ELSE Zero]

\* []byte(prefix): a new backing array; its capacity is the length plus the
\* spare room the allocator's size class leaves.
BytesOf(H, prefix, spare) ==
  [mem |-> Append(H.mem, MakeArray(prefix, Len(prefix) + spare)),
   slice |-> [arr |-> Len(H.mem) + 1, len |-> Len(prefix)]]

\* append(s, prefix...): in place when the capacity of s allows it, into a
\* new and larger array otherwise.
AppendBytes(H, s, prefix, spare) ==
  LET need == s.len + Len(prefix)
  IN IF need <= Len(H.mem[s.arr])
     THEN [mem |-> [H.mem EXCEPT ![s.arr] = CopyAt(H.mem[s.arr], s.len, prefix)],
           slice |-> [arr |-> s.arr, len |-> need]]
     ELSE [mem |-> Append(H.mem,
                     MakeArray(SubSeq(H.mem[s.arr], 1, s.len) \o prefix, need + spare)),
           slice |-> [arr |-> Len(H.mem) + 1, len |-> need]]

\* w.(*indenter): the writers 1..Len(ind) are indenters, 0 is not.
IsIndenter(H, w) == w \in 1..Len(H.ind)

\* The indenter New makes when w is the indenter in.
BadNested(H, in, slice) ==
  [w |-> in, prefix |-> slice, sol |-> H.ind[in].sol, p |-> 0]
BadLinked(H, in, slice) ==
  [w |-> H.ind[in].w, prefix |-> slice, sol |-> H.ind[in].sol, p |-> in]
Nested(H, in, slice) ==
  [w |-> H.ind[in].w, prefix |-> slice, sol |-> H.ind[in].sol, p |-> 0]

\* The indenter New makes when w is no indenter.
BadFresh(w, slice) == [w |-> w, prefix |-> slice, sol |-> FALSE, p |-> 0]
Fresh(w, slice) == [w |-> w, prefix |-> slice, sol |-> TRUE, p |-> 0]

\* New(w, prefix): the heap after the call and the writer returned.
New(H, w, prefix, spare) ==
  IF Len(prefix) = 0 THEN [ind |-> H.ind, mem |-> H.mem, ret |-> w]
  ELSE IF IsIndenter(H, w)
       THEN LET a == AppendBytes(H, H.ind[w].prefix, prefix, spare)
                new == Len(H.ind) + 1
            IN [ind |-> Append([H.ind EXCEPT ![w].p = new], Nested(H, w, a.slice)),
                mem |-> a.mem, ret |-> new]
       ELSE LET b == BytesOf(H, prefix, spare)
            IN [ind |-> Append(H.ind, Fresh(w, b.slice)),
                mem |-> b.mem, ret |-> Len(H.ind) + 1]

\* for p.p != nil { p = p.p }: the last indenter of the chain from p; 0 when
\* the loop does not end within fuel steps.
BadDeepest(ind, p, fuel) == p
RECURSIVE Deepest(_, _, _)
Deepest(ind, p, fuel) ==
  IF ind[p].p = 0 THEN p
  ELSE IF fuel = 0 THEN 0
       ELSE Deepest(ind, ind[p].p, fuel - 1)

\* The head of Write: a wrapped indenter takes the sol of the deepest wrapper
\* and forgets the link.
BadResolve(ind, h) == [ind EXCEPT ![h].p = 0]
Resolve(ind, h) ==
  IF ind[h].p # 0
  THEN LET d == Deepest(ind, ind[h].p, Len(ind))
       IN [ind EXCEPT ![h].sol = IF d = 0 THEN @ ELSE ind[d].sol, ![h].p = 0]
  ELSE ind

\* buf[i] == '\n' for a 0-based i; an index out of range panics.
InRange(buf, i) == 0 <= i /\ i < Len(buf)
BadIsNL(buf, i) == InRange(buf, i - 1) /\ buf[i] = NL
IsNL(buf, i) == InRange(buf, i) /\ buf[i + 1] = NL

\* The bytes of buf among the x bytes written after the last newline: those
\* beyond the prefix that follows it.
BadBeyondPrefix(x, prefix) == IF x >= Len(prefix) THEN x - Len(prefix) + 1 ELSE 0
BeyondPrefix(x, prefix) == IF x > Len(prefix) THEN x - Len(prefix) ELSE 0

\* The tail of Write, after in.w.Write(nbuf) returned r: the count Write
\* returns, the new sol, and whether an index was out of range.
\* if r == 0 { return 0, err }: nothing is counted and sol stays.
BadZeroAccepted(sol) == [n |-> 0, sol |-> TRUE, panic |-> FALSE]
ZeroAccepted(sol) == [n |-> 0, sol |-> sol, panic |-> FALSE]

Account(buf, nbuf, prefix, sol, r) ==
  IF r = Len(nbuf)
  THEN [n |-> Len(buf), sol |-> IsNL(nbuf, r - 1), panic |-> ~InRange(nbuf, r - 1)]
  ELSE IF r = 0 THEN ZeroAccepted(sol)
  ELSE IF sol /\ r - Len(prefix) <= 0 THEN [n |-> 0, sol |-> TRUE, panic |-> FALSE]
  ELSE LET r1 == IF sol THEN r - Len(prefix) ELSE r
           cut == Slice(nbuf, 0, r)
           nb == IF sol THEN Slice(cut, Len(prefix), Len(cut)) ELSE cut
           nl == Count(nb)
           ln == LastIndex(nb)
           x == Len(nb) - ln - 1
           n == IF nl = 0 THEN r1
                ELSE ln - (nl - 1) * Len(prefix) + 1 + BeyondPrefix(x, prefix)
       IN IF InRange(buf, n - 1)
          THEN [n |-> n, sol |-> IsNL(buf, n - 1), panic |-> FALSE]
          ELSE [n |-> n, sol |-> sol, panic |-> TRUE]

\* The destination's Write: it takes at most r bytes of buf and returns the
\* error e.
DestWrite(out, buf, r, e) ==
  LET k == Min(r, Len(buf))
  IN [out |-> out \o SubSeq(buf, 1, k), n |-> k, err |-> e]

\* What the indenter's Write returns and leaves behind, given what the
\* destination's Write returned (d) and the accounting of it (a).
BadWriteEnd(w, d, a) ==
  [ind |-> IF a.panic \/ d.panic THEN d.ind ELSE [d.ind EXCEPT ![w].sol = a.sol],
   out |-> d.out, n |-> IF d.panic THEN 0 ELSE a.n,
   err |-> IF d.n = Len(d.nbuf) THEN Nil ELSE d.err,
   panic |-> a.panic \/ d.panic, called |-> d.called, nbuf |-> d.nbuf, r |-> d.r]
WriteEnd(w, d, a) ==
  [ind |-> IF a.panic \/ d.panic THEN d.ind ELSE [d.ind EXCEPT ![w].sol = a.sol],
   out |-> d.out, n |-> IF d.panic THEN 0 ELSE a.n, err |-> d.err,
   panic |-> a.panic \/ d.panic, called |-> d.called, nbuf |-> d.nbuf, r |-> d.r]

\* if len(buf) == 0 { return 0, nil }, after the back-link resolution left
\* the indenters i1: the destination is not called.
BadEmptyWrite(H, i1, out) ==
  [ind |-> H.ind, out |-> out, n |-> 0, err |-> Nil, panic |-> FALSE,
   called |-> FALSE, nbuf |-> <<>>, r |-> 0]
EmptyWrite(H, i1, out) ==
  [ind |-> i1, out |-> out, n |-> 0, err |-> Nil, panic |-> FALSE,
   called |-> FALSE, nbuf |-> <<>>, r |-> 0]

\* w.Write(buf) for any writer w: the destination, or the indenter's Write.
\* The result holds the indenters and the destination afterwards, the returned
\* (n, err), whether the call panicked, and what reached the destination
\* (called: whether its Write was called, nbuf: with what, r: its count).
RECURSIVE Write(_, _, _, _, _, _)
Write(H, out, w, buf, r, e) ==
  IF ~IsIndenter(H, w)
  THEN Sole({[ind |-> H.ind, out |-> d.out, n |-> d.n, err |-> d.err, panic |-> FALSE,
              called |-> TRUE, nbuf |-> buf, r |-> d.n] : d \in {DestWrite(out, buf, r, e)}})
  ELSE LET i1 == Resolve(H.ind, w)
           prefix == PrefixOf(H, w)
       IN IF Len(buf) = 0 THEN EmptyWrite(H, i1, out)
          ELSE Sole({
                 Sole({
                   Sole({WriteEnd(w, d, a) :
                         a \in {Account(buf, nbuf, prefix, d.ind[w].sol, d.n)}}) :
                   d \in {Write([ind |-> i1, mem |-> H.mem], out, i1[w].w, nbuf, r, e)}}) :
                 nbuf \in {indent(buf, prefix, i1[w].sol)}})

\* ---------------------------------------------------------------- Unwrap
\* Unwrap(w, depth): the writer depth levels of New further out; parent[h] is
\* the writer New was given when it made the indenter h.
BadUnwrap(par, w, depth) ==
  IF depth <= 0 \/ w \notin 1..Len(par) THEN w ELSE par[w]
RECURSIVE Unwrap(_, _, _)
Unwrap(par, w, depth) ==
  IF depth <= 0 \/ w \notin 1..Len(par) THEN w
  ELSE Unwrap(par, par[w], depth - 1)

\* ------------------------------------------------------------------ state
VARIABLES
  ind,      \* the indenters made so far
  mem,      \* the backing arrays of their prefixes
  parent,   \* parent[h]: the writer given to the New that made h
  out,      \* the bytes the destination has accepted
  last,     \* the last call: its arguments and what it returned
  arg,      \* the parameters of the run
  cur,      \* the writer the caller writes to
  consumed, \* how many bytes of arg.buf the caller has had accepted
  pc,       \* where the caller is
  stack,    \* the nested handles the caller holds, the outermost first
  expect,   \* what a properly nested caller expects in the destination
  res       \* the result of the last pure call

vars == <<ind, mem, parent, out, last, arg, cur, consumed, pc, stack, expect, res>>

Heap == [ind |-> ind, mem |-> mem]

\* The spare capacity an allocation leaves: none, or room for every prefix
\* that can follow.  It depends on the allocator's size classes; a run has one.
Spares == {0, MaxInd + MaxOnePrefix + 1}

NoCall ==
  [op |-> "none", w |-> 0, buf |-> <<>>, prefix |-> <<>>, sol |-> FALSE,
   r |-> 0, e |-> Nil, n |-> 0, err |-> Nil,
   panic |-> FALSE, called |-> FALSE, ret |-> 0]

\* The parameters of a run: the caller's input, prefix and start-of-line flag,
\* the most the destination takes in one call, the allocator's spare capacity.
Arg(buf, prefix, sol, limit, spare) ==
  [buf |-> buf, prefix |-> prefix, sol |-> sol, limit |-> limit, spare |-> spare]
None == [op |-> "none"]

\* The state of a program that has made no indenter and written nothing.
Blank(a) ==
  /\ ind = <<>> /\ mem = <<>> /\ parent = <<>> /\ out = <<>>
  /\ last = NoCall /\ arg = a /\ cur = 0 /\ consumed = 0
  /\ pc = "run" /\ stack = <<>> /\ expect = <<>> /\ res = None

\* w2 := New(w, prefix), and the record of the call.
CallNew(w, prefix) ==
  \E n \in {New(Heap, w, prefix, arg.spare)} :
    /\ ind' = n.ind
    /\ mem' = n.mem
    /\ parent' = IF Len(n.ind) > Len(ind) THEN Append(parent, w) ELSE parent
    /\ last' = [NoCall EXCEPT !.op = "New", !.w = w, !.prefix = prefix, !.ret = n.ret]

\* n, err := w.Write(buf) with a destination that takes at most r bytes and
\* returns e, and the record of the call: sol is the flag the call indented
\* with, r the count the destination returned.  With keep the destination
\* keeps the bytes it takes (a buffer); without, it only counts them.
Call(w, buf, r, e, keep) ==
  \E b \in {buf}, err \in {e}, H \in {Heap} :
    \E c \in {Write(H, out, w, b, r, err)} :
      /\ ind' = c.ind
      /\ out' = IF keep THEN c.out ELSE out
      /\ last' = [NoCall EXCEPT !.op = "Write", !.w = w, !.buf = b,
                    !.sol = IF IsIndenter(H, w) THEN Resolve(ind, w)[w].sol ELSE FALSE,
                    !.r = c.r, !.e = err, !.n = c.n, !.err = c.err,
                    !.panic = c.panic, !.called = c.called]
      /\ UNCHANGED <<mem, parent>>

CallWrite(w, buf, r, e) == Call(w, buf, r, e, TRUE)

\* What w.Write(buf) offers the destination.
Offered(w, buf) ==
  IF IsIndenter(Heap, w)
  THEN indent(buf, PrefixOf(Heap, w), Resolve(ind, w)[w].sol)
  ELSE buf

\* ------------------------------------------------------------ Spec: calls
\* Any New and any Write, on any writer made so far, in any order, with a
\* destination that takes all or nothing of what it is offered, and returns
\* an error when it takes nothing.
Prefixes == {<<>>, <<"-">>, <<"+">>}
Bufs == {<<>>, <<"a">>, <<NL>>, <<NL, "a">>}

Init == \E spare \in Spares : Blank(Arg(<<>>, <<>>, FALSE, 0, spare))

DoNew ==
  \E w \in 0..Len(ind), prefix \in Prefixes :
    /\ Len(ind) < MaxInd
    /\ CallNew(w, prefix)
    /\ UNCHANGED <<out, arg, cur, consumed, pc, stack, expect, res>>

DoWrite ==
  \E w \in 1..Len(ind), buf \in Bufs :
    \E r \in {0, Len(Offered(w, buf))} :
      /\ Len(out) + r <= MaxOut
      /\ ~last.panic
      /\ CallWrite(w, buf, r, IF r < Len(Offered(w, buf)) THEN "EOF" ELSE Nil)
      /\ UNCHANGED <<arg, cur, consumed, pc, stack, expect, res>>

Next == DoNew \/ DoWrite

Spec == Init /\ [][Next]_vars

\* ------------------------------------------------- SpecPartial: one writer
\* As TestReturn does: w := New(dest, prefix); w.Write(input[:w0]), taken in
\* full; then w.Write(input[w0:]), of which the destination takes any part,
\* returning any error.
Inputs == SeqsUpTo({"a", NL}, MaxInput)
OnePrefixes == SeqsUpTo({"-", NL}, MaxOnePrefix) \ {<<>>}

\* The state after w := New(dest, prefix) in a blank program.
Made(a, at) ==
  \E n \in {New([ind |-> <<>>, mem |-> <<>>], 0, a.prefix, a.spare)} :
    /\ ind = n.ind /\ mem = n.mem /\ cur = n.ret
    /\ parent = [h \in 1..Len(n.ind) |-> 0]
    /\ out = <<>> /\ last = NoCall /\ arg = a /\ consumed = 0
    /\ pc = at /\ stack = <<>> /\ expect = <<>> /\ res = None

InitPartial ==
  \E buf \in Inputs, prefix \in OnePrefixes, spare \in Spares :
    Made(Arg(buf, prefix, TRUE, 0, spare), "first")

WriteFirst ==
  \E w0 \in 0..Len(arg.buf) :
    /\ pc = "first"
    /\ CallWrite(cur, Slice(arg.buf, 0, w0), Len(Offered(cur, Slice(arg.buf, 0, w0))), Nil)
    /\ consumed' = w0
    /\ pc' = "second"
    /\ UNCHANGED <<arg, cur, stack, expect, res>>

WriteSecond ==
  \E e \in Errors :
    \E r \in 0..Len(Offered(cur, Slice(arg.buf, consumed, Len(arg.buf)))) :
      /\ pc = "second"
      /\ CallWrite(cur, Slice(arg.buf, consumed, Len(arg.buf)), r, e)
      /\ pc' = "done"
      /\ UNCHANGED <<arg, cur, consumed, stack, expect, res>>

NextPartial == WriteFirst \/ WriteSecond

SpecPartial == InitPartial /\ [][NextPartial]_vars

\* ------------------------------------------------ SpecIndent: the transform
\* As TestIndent does: one call of indent on any buffer, any prefix (the
\* empty ones included) and either flag.
AnyPrefixes == SeqsUpTo({"-", NL}, MaxOnePrefix)

InitIndent ==
  \E buf \in Inputs, prefix \in AnyPrefixes, sol \in BOOLEAN :
    Blank(Arg(buf, prefix, sol, 0, 0))

CallIndent ==
  /\ pc = "run"
  /\ res' = indent(arg.buf, arg.prefix, arg.sol)
  /\ pc' = "done"
  /\ UNCHANGED <<ind, mem, parent, out, last, arg, cur, consumed, stack, expect>>

NextIndent == CallIndent

SpecIndent == InitIndent /\ [][NextIndent]_vars

\* ---------------------------------------------- SpecOneShot: String, Bytes
\* The package comment's equivalence: var buf bytes.Buffer;
\* indent.New(&buf, prefix).Write(input); buf.String(), beside
\* String(prefix, input) and Bytes(prefix, input).
InitOneShot ==
  \E buf \in Inputs, prefix \in AnyPrefixes, spare \in Spares :
    /\ Blank(Arg(buf, prefix, TRUE, 0, spare))

OneNew ==
  /\ pc = "run"
  /\ CallNew(0, arg.prefix)
  /\ cur' = last'.ret
  /\ pc' = "write"
  /\ UNCHANGED <<out, arg, consumed, stack, expect, res>>

OneWrite ==
  /\ pc = "write"
  /\ CallWrite(cur, arg.buf, Len(Offered(cur, arg.buf)), Nil)
  /\ pc' = "read"
  /\ UNCHANGED <<arg, cur, consumed, stack, expect, res>>

OneString ==
  /\ pc = "read"
  /\ res' = [String |-> String(arg.prefix, arg.buf), Bytes |-> Bytes(arg.prefix, arg.buf)]
  /\ pc' = "done"
  /\ UNCHANGED <<ind, mem, parent, out, last, arg, cur, consumed, stack, expect>>

NextOneShot == OneNew \/ OneWrite \/ OneString

SpecOneShot == InitOneShot /\ [][NextOneShot]_vars

\* ------------------------------------------------ SpecStream: the chunks
\* As TestNew does: w := New(&buf, prefix), then the input written chunk by
\* chunk, empty chunks included, to a destination that takes everything.
InitStream ==
  \E buf \in Inputs, prefix \in AnyPrefixes, spare \in Spares :
    Made(Arg(buf, prefix, TRUE, 0, spare), "run")

WriteChunk ==
  \E k \in 0..(Len(arg.buf) - consumed) :
    \E chunk \in {Slice(arg.buf, consumed, consumed + k)} :
      /\ pc = "run"
      /\ CallWrite(cur, chunk, Len(Offered(cur, chunk)), Nil)
      /\ consumed' = consumed + k
      /\ UNCHANGED <<arg, cur, pc, stack, expect, res>>

NextStream == WriteChunk

SpecStream == InitStream /\ [][NextStream]_vars

\* --------------------------------------------------- SpecRetry: the retries
\* The caller's loop over a destination that takes at most arg.limit bytes a
\* call (and returns an error when that is less than it was offered):
\*   for len(input) > 0 { n, _ := w.Write(input); input = input[n:] }
Limited(w, buf) == IF Len(Offered(w, buf)) > arg.limit THEN "EOF" ELSE Nil
Rest == Slice(arg.buf, consumed, Len(arg.buf))

InitRetry ==
  \E buf \in Inputs, prefix \in OnePrefixes, limit \in 1..MaxLimit, spare \in Spares :
    Made(Arg(buf, prefix, TRUE, limit, spare), "loop")

RetryWrite ==
  /\ pc = "loop"
  /\ consumed < Len(arg.buf)
  /\ Len(out) < MaxRetryOut
  /\ CallWrite(cur, Rest, arg.limit, Limited(cur, Rest))
  /\ pc' = "ret"
  /\ UNCHANGED <<arg, cur, consumed, stack, expect, res>>

RetryAdvance ==
  /\ pc = "ret"
  /\ ~last.panic
  /\ consumed' = consumed + last.n
  /\ pc' = "loop"
  /\ UNCHANGED <<ind, mem, parent, out, last, arg, cur, stack, expect, res>>

NextRetry == RetryWrite \/ RetryAdvance

SpecRetry == InitRetry /\ [][NextRetry]_vars

\* The same loop over a destination that counts the bytes it takes and does
\* not keep them, with prefixes that hold no terminator.  The loop is
\* sequential code: it takes its next step whenever it has one.
InitCount ==
  \E buf \in Inputs, prefix \in OnePrefixes, limit \in 1..MaxLimit, spare \in Spares :
    /\ \A i \in 1..Len(prefix) : prefix[i] # NL
    /\ Made(Arg(buf, prefix, TRUE, limit, spare), "loop")

CountWrite ==
  /\ pc = "loop"
  /\ consumed < Len(arg.buf)
  /\ Call(cur, Rest, arg.limit, Limited(cur, Rest), FALSE)
  /\ pc' = "ret"
  /\ UNCHANGED <<arg, cur, consumed, stack, expect, res>>

NextCount == CountWrite \/ RetryAdvance

SpecRetryFair == InitCount /\ [][NextCount]_vars /\ WF_vars(NextCount)

\* Whether the prefix belongs before the i-th byte of buf: before the first
\* byte at the start of a line, and before every byte that follows a newline.
StartsLine(buf, sol, i) == IF i = 1 THEN sol ELSE buf[i - 1] = NL

\* buf with the prefix put before every byte that starts a line.
RECURSIVE Placed(_, _, _, _)
Placed(buf, prefix, sol, i) ==
  IF i > Len(buf) THEN <<>>
  ELSE (IF StartsLine(buf, sol, i) THEN prefix ELSE <<>>)
       \o <<buf[i]>> \o Placed(buf, prefix, sol, i + 1)

\* -------------------------------------------------- SpecNest: nested use
\* TestNested, at any depth: the caller holds a stack of
\* handles, each made by New from the one below it, the first from the
\* destination.  It writes through the innermost handle, nests further, or
\* drops the innermost handle and resumes writing through the one below
\* before it nests again.  The destination takes every write in full.  The
\* prefix of a handle goes by its level; consumed counts the bytes written.
NestPrefix(level) == IF level % 2 = 1 THEN <<"-">> ELSE <<"+">>
Chunks == {<<>>, <<"a">>, <<NL>>, <<"a", NL>>}

Top == IF stack = <<>> THEN 0 ELSE stack[Len(stack)].h
TopPrefix == IF stack = <<>> THEN <<>> ELSE stack[Len(stack)].prefix
AtLineStart(bytes) == bytes = <<>> \/ bytes[Len(bytes)] = NL

InitNest == \E spare \in Spares : Blank(Arg(<<>>, <<>>, TRUE, 0, spare))

NestPush ==
  \E prefix \in {NestPrefix(Len(stack) + 1)} :
    /\ pc = "run"
    /\ Len(stack) < MaxDepth
    /\ Len(ind) < MaxHandles
    /\ CallNew(Top, prefix)
    /\ stack' = Append(stack, [h |-> last'.ret, prefix |-> TopPrefix \o prefix])
    /\ UNCHANGED <<out, arg, cur, consumed, pc, expect, res>>

NestWrite ==
  \E buf \in Chunks :
    /\ stack # <<>>
    /\ consumed + Len(buf) <= MaxWritten
    /\ CallWrite(Top, buf, Len(Offered(Top, buf)), Nil)
    /\ expect' = expect \o Placed(buf, TopPrefix, AtLineStart(expect), 1)
    /\ consumed' = consumed + Len(buf)
    /\ pc' = "run"
    /\ UNCHANGED <<arg, cur, stack, res>>

NestPop ==
  /\ Len(stack) > 1
  /\ stack' = SubSeq(stack, 1, Len(stack) - 1)
  /\ pc' = "resume"
  /\ UNCHANGED <<ind, mem, parent, out, last, arg, cur, consumed, expect, res>>

NextNest == NestPush \/ NestWrite \/ NestPop

SpecNest == InitNest /\ [][NextNest]_vars

\* ------------------------------------------------------ SpecUnwrap: chains
\* TestUnwrap, at any depth: the caller builds a chain of handles, each made
\* by New from the one before, writes through any of them, and after a New
\* or a Write calls Unwrap on the destination (level 0) or on a handle of the
\* chain.
ChainChunks == {<<>>, <<"a">>, <<NL>>}

\* Unwrap reads no prefix: the allocator leaves no spare capacity here.
InitUnwrap == Blank(Arg(<<>>, <<>>, TRUE, 0, 0))

ChainNew ==
  \E prefix \in {NestPrefix(Len(stack) + 1)} :
    /\ Len(stack) < MaxDepth
    /\ CallNew(Top, prefix)
    /\ stack' = Append(stack, [h |-> last'.ret, prefix |-> TopPrefix \o prefix])
    /\ res' = None
    /\ UNCHANGED <<out, arg, cur, consumed, pc, expect>>

ChainWrite ==
  \E level \in 1..Len(stack), buf \in ChainChunks :
    /\ consumed + Len(buf) <= MaxChainWritten
    /\ CallWrite(stack[level].h, buf, Len(Offered(stack[level].h, buf)), Nil)
    /\ consumed' = consumed + Len(buf)
    /\ res' = None
    /\ UNCHANGED <<arg, cur, pc, stack, expect>>

ChainUnwrap ==
  \E level \in 0..Len(stack), depth \in -1..(MaxDepth + 1) :
    \E w \in {IF level = 0 THEN 0 ELSE stack[level].h} :
      /\ res = None
      /\ res' = [w |-> w, level |-> level, depth |-> depth,
                 ret |-> Unwrap(parent, w, depth)]
      /\ UNCHANGED <<ind, mem, parent, out, last, arg, cur, consumed, pc, stack, expect>>

NextUnwrap == ChainNew \/ ChainWrite \/ ChainUnwrap

SpecUnwrap == InitUnwrap /\ [][NextUnwrap]_vars

\* ------------------------------------------- SpecShare: shared destination
\* One New on the destination, then any New on a handle made so far and any
\* Write through any of them, in any order.  The destination takes every
\* write in full; consumed counts the bytes written.
ShareNew ==
  \E w \in IF ind = <<>> THEN {0} ELSE 1..Len(ind) :
    \E prefix \in {NestPrefix(Len(ind) + 1)} :
      /\ Len(ind) < MaxShared
      /\ CallNew(w, prefix)
      /\ UNCHANGED <<out, arg, cur, consumed, pc, stack, expect, res>>

ShareWrite ==
  \E w \in 1..Len(ind), buf \in ChainChunks :
    /\ consumed + Len(buf) <= MaxSharedWritten
    /\ CallWrite(w, buf, Len(Offered(w, buf)), Nil)
    /\ consumed' = consumed + Len(buf)
    /\ UNCHANGED <<arg, cur, pc, stack, expect, res>>

NextShare == ShareNew \/ ShareWrite

SpecShare == InitNest /\ [][NextShare]_vars

\* ================================================================ claims
\* What Write offered the destination in the last call.
Expanded == indent(last.buf, PrefixOf(Heap, last.w), last.sol)

\* For each byte of the expanded buffer, whether it is a byte of buf (TRUE)
\* or a byte of an inserted prefix (FALSE).
RECURSIVE IsInput(_, _, _, _)
IsInput(buf, prefix, sol, i) ==
  IF i > Len(buf) THEN <<>>
  ELSE (IF StartsLine(buf, sol, i) THEN [j \in 1..Len(prefix) |-> FALSE] ELSE <<>>)
       \o <<TRUE>> \o IsInput(buf, prefix, sol, i + 1)

\* The bytes of buf among the first m bytes of the expanded buffer.
InputAmong(buf, prefix, sol, m) ==
  Cardinality({j \in 1..m : IsInput(buf, prefix, sol, 1)[j]})

TerminatorFree(prefix) == \A i \in 1..Len(prefix) : prefix[i] # NL

\* C2: when the prefix holds no terminator and the destination took m bytes
\* of the expanded buffer, Write returns the number of bytes of buf among the
\* first m bytes: m less the bytes of inserted prefixes, whole or cut.
C2_PartialCount ==
  (last.op = "Write" /\ last.called /\ TerminatorFree(arg.prefix))
    => /\ ~last.panic
       /\ last.r <= Len(Expanded)
       /\ last.n = InputAmong(last.buf, arg.prefix, last.sol, last.r)

\* C2 witness: a Write at the start of a line of which the destination took
\* a part that holds one whole inserted prefix and ends inside the second.
C2_Witness ==
  /\ pc = "done" /\ last.called /\ last.sol
  /\ arg.prefix = <<"-", "-">>
  /\ last.buf = <<"a", NL, "a">>
  /\ last.r = 5 /\ last.n = 2

\* C8: a Write that reached the destination and returns, returns the error
\* the destination returned, nil or not, however much the destination took;
\* when the destination took everything it returns len(buf); a Write that
\* does not reach the destination returns nil.
C8_ErrorPropagation ==
  (last.op = "Write" /\ ~last.panic)
    => /\ last.called => last.err = last.e
       /\ (last.called /\ last.r = Len(Expanded)) => last.n = Len(last.buf)
       /\ ~last.called => last.err = Nil

\* C8 witness: the destination took everything and returned an error.
C8_Witness ==
  /\ pc = "done" /\ last.called /\ last.buf # <<>>
  /\ last.r = Len(Expanded) /\ last.e = "EOF"
  /\ last.err = "EOF" /\ last.n = Len(last.buf)

\* C6: a New with a non-empty prefix on an indenter W makes a new indenter
\* that writes where W writes, has W's prefix followed by the new one and W's
\* sol, and is W's back-link; a New with an empty prefix returns the writer
\* it was given and makes nothing; and so no indenter writes to an indenter.
C6_Flattening ==
  [][/\ (Len(ind') = Len(ind) + 1 /\ IsIndenter(Heap, last'.w)) =>
          /\ last'.op = "New" /\ last'.prefix # <<>>
          /\ last'.ret = Len(ind') /\ last'.ret # last'.w
          /\ ind'[last'.ret].w = ind[last'.w].w
          /\ SubSeq(mem'[ind'[last'.ret].prefix.arr], 1, ind'[last'.ret].prefix.len)
               = PrefixOf(Heap, last'.w) \o last'.prefix
          /\ ind'[last'.ret].sol = ind[last'.w].sol
          /\ ind'[last'.w].p = last'.ret
     /\ (last'.op = "New" /\ last'.prefix = <<>>) =>
          /\ last'.ret = last'.w
          /\ ind' = ind /\ mem' = mem
     /\ \A h \in 1..Len(ind') : ~(ind'[h].w \in 1..Len(ind'))
    ]_vars

\* C6 witness: New on an indenter that is in the middle of a line.
C6_Witness ==
  /\ last.op = "New" /\ last.w = 1 /\ last.ret = 2 /\ last.prefix = <<"+">>
  /\ ~ind[2].sol /\ ind[2].w = 0 /\ ind[1].p = 2
  /\ PrefixOf(Heap, 2) = <<"-", "+">>

\* C5: indent puts the prefix before the first byte of every line, the first
\* line's only when sol holds, and nowhere else (none after a final
\* terminator); an empty buffer or an empty prefix gives the buffer back.
C5_Placement ==
  pc = "done" =>
    res = IF arg.buf = <<>> \/ arg.prefix = <<>> THEN arg.buf
          ELSE Placed(arg.buf, arg.prefix, arg.sol, 1)

\* C5 witness: a buffer that starts in the middle of a line, holds an empty
\* line and ends on a terminator.
C5_Witness ==
  /\ pc = "done" /\ ~arg.sol
  /\ arg.buf = <<NL, NL, "a", NL>> /\ arg.prefix = <<"-", "-">>
  /\ res = <<NL, "-", "-", NL, "-", "-", "a", NL>>

\* C7: String and Bytes return the bytes that New(sink, prefix) followed by
\* one Write of the input leaves in an empty sink that takes everything.
C7_OneShot ==
  pc = "done" => (res.String = out /\ res.Bytes = out)

\* C7 witness: two lines through a writer with a two-byte prefix.
C7_Witness ==
  /\ pc = "done" /\ arg.prefix = <<"-", "-">> /\ arg.buf = <<"a", NL, "a">>
  /\ last.op = "Write" /\ last.n = 3
  /\ out = <<"-", "-", "a", NL, "-", "-", "a">>

\* What one Write of the whole input through a fresh New(sink, prefix) leaves
\* in an empty sink that takes everything.
Single(prefix, input, spare) ==
  LET n == New([ind |-> <<>>, mem |-> <<>>], 0, prefix, spare)
  IN Write([ind |-> n.ind, mem |-> n.mem], <<>>, n.ret, input,
           Len(input) * (1 + Len(prefix)) + Len(prefix), Nil).out

\* C3: once all chunks of a split of the input are written, in order, through
\* one writer, the destination holds what a single Write of the whole input
\* leaves there, whatever the split.
C3_Streaming ==
  consumed = Len(arg.buf) => out = Single(arg.prefix, arg.buf, arg.spare)

\* C3 witness: two lines written in two chunks, split after the terminator.
C3_Witness ==
  /\ consumed = 4 /\ arg.buf = <<"a", NL, "a", NL>> /\ arg.prefix = <<"-", "-">>
  /\ last.op = "Write" /\ last.buf = <<"a", NL>> /\ last.sol
  /\ out = <<"-", "-", "a", NL, "-", "-", "a", NL>>

\* C1: when the retry loop over a destination that takes at most N bytes a
\* call has had all input reported consumed, the destination holds what one
\* Write of the whole input to an unconstrained destination leaves there.
C1_RoundTrip ==
  (pc = "loop" /\ consumed = Len(arg.buf))
    => out = Single(arg.prefix, arg.buf, arg.spare)

\* C9: the retry loop over a destination that takes at most N >= 1 bytes a
\* call ends: eventually all input is reported consumed.
C9_RetryEnds == <>(pc = "loop" /\ consumed >= Len(arg.buf))

\* C4: in properly nested use the destination holds the chunks in order,
\* each line prefixed once, at its start, with the combined prefix of the
\* handle that wrote its first byte, and no prefix inside a line.
C4_Handoff == stack # <<>> => out = expect

\* C4 witness: a transition into the nested handle in the middle of a line,
\* one out of it after a line started while nested, the outer handle resumed.
C4_Witness ==
  /\ Len(stack) = 1 /\ pc = "run" /\ last.op = "Write" /\ last.w = stack[1].h
  /\ stack[1].prefix = <<"-">> /\ Len(ind) = 2 /\ PrefixOf(Heap, 2) = <<"-", "+">>
  /\ out = <<"-", "a", NL, "-", "+", "a", NL>>

\* C10: Unwrap(wk, depth) is wk for depth <= 0, the handle depth levels
\* further out for 0 < depth < k, the destination for depth >= k; Unwrap of
\* the destination is the destination; before and after writes.
C10_UnwrapDepth ==
  res # None =>
    res.ret = IF res.depth <= 0 THEN res.w
              ELSE IF res.depth >= res.level THEN 0
              ELSE stack[res.level - res.depth].h

\* C10 witness: three handles deep, after a write, Unwrap(w3, 2) is w1.
C10_Witness ==
  /\ res # None /\ Len(stack) = 3 /\ out # <<>>
  /\ res.level = 3 /\ res.depth = 2 /\ res.ret = stack[1].h

\* What the destination held before the last Write gave it last.r bytes.
Before == SubSeq(out, 1, Len(out) - last.r)

\* C11: whatever the order of New and Write on handles that share a fully
\* accepting destination, the start-of-line flag a Write indents with is true
\* exactly when the destination held nothing or ended on the terminator.
C11_SolTruth ==
  (last.op = "Write" /\ last.called) => (last.sol <=> AtLineStart(Before))

\* C12: after every Write of a single un-nested writer whose prefix holds no
\* terminator, taken in full, in part or not at all, sol is true exactly when
\* the destination has accepted nothing so far or the last byte it accepted
\* is the terminator.
C12_SolTracks ==
  (last.op = "Write" /\ TerminatorFree(arg.prefix))
    => (ind[cur].sol <=> AtLineStart(out))

\* C13: no New and no Write changes the bytes of the prefix of an indenter
\* that New has returned, whatever spare capacity its backing array has.
C13_PrefixFixed ==
  [][\A h \in 1..Len(ind) :
       PrefixOf([ind |-> ind', mem |-> mem'], h) = PrefixOf(Heap, h)]_vars

\* d is reached from h along back-links, in at most k steps.
RECURSIVE Wraps(_, _, _)
Wraps(h, d, k) ==
  k > 0 /\ ind[h].p # 0 /\ (ind[h].p = d \/ Wraps(ind[h].p, d, k - 1))

\* C14: a Write on a writer h whose back-link is set indents with the sol of
\* the last writer of the back-link chain from h (an empty Write, which stops
\* before the transform, keeps that sol); after a Write on h its back-link is
\* empty; a back-link changes only when New wraps the writer (it is then the
\* writer New returns) or when the writer itself is written to.
C14_BackLink ==
  [][\A h \in 1..Len(ind) :
       /\ (last'.op = "Write" /\ last'.w = h)
            => /\ ind'[h].p = 0
               /\ ind[h].p # 0
                    => \E d \in 1..Len(ind) :
                         /\ Wraps(h, d, Len(ind)) /\ ind[d].p = 0
                         /\ out' = out \o Placed(last'.buf, PrefixOf(Heap, h), ind[d].sol, 1)
                         /\ last'.buf = <<>> => ind'[h].sol = ind[d].sol
       /\ ind'[h].p # ind[h].p
            => \/ last'.op = "Write" /\ last'.w = h
               \/ last'.op = "New" /\ last'.w = h /\ ind'[h].p = last'.ret]_vars

\* C14 witness: a Write on a writer wrapped twice over, after the deepest
\* wrapper has left the destination in the middle of a line.
C14_Witness ==
  /\ Len(ind) = 3 /\ last.op = "Write" /\ last.w = 1 /\ last.buf = <<"a">>
  /\ ind[1].p = 0 /\ ind[2].p = 3 /\ ind[2].sol /\ ~ind[3].sol
  /\ out = <<"-", "+", "-", "a", "a">>

\* What w.Write(buf) leaves in a destination holding o that takes everything.
Retried(H, o, w, buf) ==
  Sole({Write(h, o, w, b, Len(b) * (1 + Len(PrefixOf(h, w))) + Len(PrefixOf(h, w)), Nil).out :
        h \in {H}, b \in {buf}})

\* C15: a Write of which the destination takes nothing returns 0 and the
\* destination's error, leaves the destination and the writer's prefix as
\* they were and its sol as the back-link resolution left it, and the same
\* Write tried again with a destination that takes everything leaves what it
\* would have left without the failed call.
C15_ZeroAccepted ==
  [][(last'.op = "Write" /\ last'.called /\ last'.r = 0)
       => \E w \in {last'.w} :
            /\ last'.n = 0 /\ last'.err = last'.e
            /\ out' = out
            /\ PrefixOf([ind |-> ind', mem |-> mem'], w) = PrefixOf(Heap, w)
            /\ ind[w].p = 0 => ind'[w].sol = ind[w].sol
            /\ ind[w].p # 0
                 => \E d \in 1..Len(ind) :
                      Wraps(w, d, Len(ind)) /\ ind[d].p = 0 /\ ind'[w].sol = ind[d].sol
            /\ Retried([ind |-> ind', mem |-> mem'], out', w, last'.buf)
                 = Retried(Heap, out, w, last'.buf)]_vars

\* C15 witness: in the middle of a line the destination takes nothing of a
\* Write and returns an error.
C15_Witness ==
  /\ last.op = "Write" /\ last.called /\ last.r = 0 /\ last.n = 0
  /\ last.err = "EOF" /\ last.buf = <<NL, "a">> /\ ~last.sol
  /\ ~ind[last.w].sol /\ out = <<"-", "a">>

\* C16: a Write of an empty buffer returns (0, nil) without calling the
\* destination and changes nothing but the writer's pending back-link, which
\* it resolves first: sol taken from the last writer of the chain, the link
\* cleared; a writer with no back-link keeps its sol.
C16_EmptyWrite ==
  [][(last'.op = "Write" /\ last'.buf = <<>>)
       => \E w \in {last'.w} :
            /\ last'.n = 0 /\ last'.err = Nil /\ ~last'.called
            /\ out' = out /\ mem' = mem /\ Len(ind') = Len(ind)
            /\ \A h \in 1..Len(ind) : h # w => ind'[h] = ind[h]
            /\ ind'[w].w = ind[w].w /\ ind'[w].prefix = ind[w].prefix
            /\ ind'[w].p = 0
            /\ ind[w].p = 0 => ind'[w].sol = ind[w].sol
            /\ ind[w].p # 0
                 => \E d \in 1..Len(ind) :
                      Wraps(w, d, Len(ind)) /\ ind[d].p = 0 /\ ind'[w].sol = ind[d].sol]_vars

\* C16 witness: an empty Write on a writer whose wrapper has left the
\* destination in the middle of a line: the writer takes over sol = false.
C16_Witness ==
  /\ last.op = "Write" /\ last.buf = <<>> /\ last.w = 1 /\ ~last.called
  /\ Len(ind) = 2 /\ ind[1].p = 0 /\ ~ind[1].sol /\ ~ind[2].sol
  /\ out = <<"-", "+", "a">>

\* C17: for every non-empty prefix, terminators in it included, every
\* non-empty buffer, either sol and every count the destination returns,
\* Write reads no index outside its buffers and returns 0 <= n <= len(buf).
C17_InBounds ==
  (last.op = "Write" /\ last.called)
    => (~last.panic /\ 0 <= last.n /\ last.n <= Len(last.buf))

\* C18: following back-links from any indenter never comes back to an
\* indenter already visited, and ends at an indenter with no back-link.
C18_Acyclic ==
  \A h \in 1..Len(ind) :
    /\ ~Wraps(h, h, Len(ind))
    /\ ind[h].p \in 0..Len(ind)
    /\ \E d \in 1..Len(ind) : (d = h \/ Wraps(h, d, Len(ind))) /\ ind[d].p = 0

\* C18 witness: after a Write, a chain of two pending back-links.
C18_Witness ==
  /\ Len(ind) = 3 /\ ind[1].p = 2 /\ ind[2].p = 3 /\ ind[3].p = 0
  /\ last.op = "New" /\ last.w = 2 /\ out = <<"-", "a">>

====
